---- MODULE Spec2Model ----
(***************************************************************************)
(* Model of server.js: the WebSocket chat relay.  The state is the         *)
(* clients Map, the id counter, the per-socket transport state kept by the *)
(* ws library (readyState, isAlive) and the process phase.  Every handler  *)
(* of server.js is one atomic action (Node runs each callback to           *)
(* completion on one thread).                                              *)
(*                                                                         *)
(* A socket handle ws is the ordinal of the WebSocket object in creation   *)
(* order.  Strings are sequences of one-character strings so that          *)
(* String.prototype.trim can be computed.  Timestamps and the human        *)
(* readable `message` texts of outbound envelopes are left out of the      *)
(* envelopes, except for the two error texts, which are told apart.        *)
(***************************************************************************)
EXTENDS Integers, Sequences, FiniteSets, TLC

VARIABLES
  clients,        \* the Map, as the sequence of its keys in insertion order
  clientInfo,     \* the clientInfo object created for each socket
  clientCounter,
  isAlive,        \* ws.isAlive
  readyState,     \* ws.readyState; "NONE" for a socket not created yet
  inbound,        \* sockets whose transport still delivers frames
  phase,          \* "running", "closing" (after SIGINT), "exited"
  sent,           \* the send calls made by the last handler, in order
  lastOp,         \* the last handler that ran, with its input
  pinged,         \* sockets probed by ws.ping() with no pong since
  reaped,         \* sockets the heartbeat has terminated, not closed yet
  leftCount,      \* per socket, the user_left broadcasts made for it
  broken          \* OPEN sockets whose transport fails every write

vars == <<clients, clientInfo, clientCounter, isAlive, readyState, inbound,
          phase, sent, lastOp, pinged, reaped, leftCount, broken>>

\* Number of connections accepted in one run of the model.
MaxConn == 3

Sockets == 1..MaxConn

NoWs == 0

\* ---------------------------------------------------------------------
\* JavaScript values carried by the fields of an inbound message.

Undefined == [t |-> "undefined", s |-> <<>>, n |-> 0]

Str(s) == [t |-> "string", s |-> s, n |-> 0]

Num(n) == [t |-> "number", s |-> <<>>, n |-> n]

\* JavaScript truthiness, as used by `a && b` in the handlers.
Truthy(v) ==
  \/ v.t = "string" /\ v.s # <<>>
  \/ v.t = "number" /\ v.n # 0

\* `===` on two values: same type and same content.
StrictEq(a, b) == a.t = b.t /\ a.s = b.s /\ a.n = b.n

RECURSIVE TrimStart(_)
TrimStart(s) ==
  IF s # <<>> /\ Head(s) = " " THEN TrimStart(Tail(s)) ELSE s

RECURSIVE TrimEnd(_)
TrimEnd(s) ==
  IF s # <<>> /\ s[Len(s)] = " " THEN TrimEnd(SubSeq(s, 1, Len(s) - 1)) ELSE s

TrimNothing(s) == s

\* String.prototype.trim
Trim(s) == TrimEnd(TrimStart(s))

Digit(n) ==
  CASE n = 0 -> "0" [] n = 1 -> "1" [] n = 2 -> "2" [] n = 3 -> "3"
    [] n = 4 -> "4" [] n = 5 -> "5" [] n = 6 -> "6" [] n = 7 -> "7"
    [] n = 8 -> "8" [] OTHER -> "9"

\* `User_${clientId}`
DefaultUsername(id) == <<"U", "s", "e", "r", "_", Digit(id)>>

\* ---------------------------------------------------------------------
\* The clients Map.  Its values are the clientInfo objects, which the
\* handlers of a socket also hold through their closure: the Map is the
\* sequence of its keys and clientInfo[ws] is the object of socket ws.

NextClientIdFromSize(counter) == Len(clients) + 1

\* ++clientCounter
NextClientId(counter) == counter + 1

NewClientInfo(id) == [id |-> id, username |-> DefaultUsername(id)]

\* The object of a socket that has no handlers (not created, or closed and
\* no longer referenced).
NoInfo == [id |-> 0, username |-> <<>>]

Keys(cl) == {cl[i] : i \in 1..Len(cl)}

\* clients.set(ws, info): keeps the position of an existing key, appends
\* a new key.
MapSet(cl, ws) == IF ws \in Keys(cl) THEN cl ELSE Append(cl, ws)

\* clients.delete(ws): no effect when the key is absent.
MapDelete(cl, ws) == SelectSeq(cl, LAMBDA k : k # ws)

\* ---------------------------------------------------------------------
\* Outbound traffic.  `sent` is the sequence of send calls made by the
\* last handler, in call order.  A send on a socket that is not OPEN is
\* dropped by the transport.

Send(ws, msg) == [to |-> ws, msg |-> msg]

RECURSIVE BroadcastFrom(_, _, _, _, _)

\* A loop that a failing write ends: the sockets after it get no call.
BroadcastFromAborting(cl, rs, message, senderWs, i) ==
  IF i > Len(cl) \/ cl[i] \in broken THEN <<>>
  ELSE LET ws == cl[i]
           rest == BroadcastFrom(cl, rs, message, senderWs, i + 1)
       IN IF rs[ws] # "OPEN" THEN rest
          ELSE IF senderWs = NoWs \/ ws # senderWs
                 THEN <<Send(ws, message)>> \o rest
                 ELSE <<Send(ws, message @@ [acknowledged |-> TRUE])>> \o rest

BroadcastFrom(cl, rs, message, senderWs, i) ==
  IF i > Len(cl) THEN <<>>
  ELSE LET ws == cl[i]
           rest == BroadcastFrom(cl, rs, message, senderWs, i + 1)
       IN IF rs[ws] = "OPEN"
            THEN IF senderWs = NoWs \/ ws # senderWs
                   THEN <<Send(ws, message)>> \o rest
                   ELSE <<Send(ws, message @@ [acknowledged |-> TRUE])>> \o rest
            ELSE rest

broadcastMessage(cl, rs, message, senderWs) ==
  BroadcastFrom(cl, rs, message, senderWs, 1)

\* ---------------------------------------------------------------------
\* Inbound payloads.  parse is the outcome of JSON.parse(data): "error"
\* (it throws), "null" (a parsed value with no properties: reading .type
\* throws) or "object".  Only the fields the handlers read are kept.

Payload(parse, type, username, text, targetClientId) ==
  [parse |-> parse, type |-> type, username |-> username, text |-> text,
   targetClientId |-> targetClientId]

NoData == Payload("none", "", Undefined, Undefined, Undefined)

Obj(type, username, text, targetClientId) ==
  Payload("object", type, username, text, targetClientId)

StringInputs == {<<>>, <<" ">>, <<" ", "a", " ">>}

FieldInputs == {Undefined, Num(5)} \cup {Str(s) : s \in StringInputs}

TargetInputs ==
  {Undefined, Str(<<"1">>)} \cup {Num(n) : n \in 0..(MaxConn + 1)}

TextInputs == {Undefined, Str(<<>>), Str(<<"x">>)}

Payloads ==
  {Payload("error", "", Undefined, Undefined, Undefined),
   Payload("null", "", Undefined, Undefined, Undefined)}
  \cup {Obj("set_username", u, Undefined, Undefined) : u \in FieldInputs}
  \cup {Obj("chat", Undefined, t, Undefined) : t \in FieldInputs}
  \cup {Obj("private_message", Undefined, t, id) :
          t \in TextInputs, id \in TargetInputs}
  \cup {Obj(ty, Undefined, Undefined, Undefined) :
          ty \in {"get_users", "ping", "other", ""}}

\* ---------------------------------------------------------------------
\* ws.on('message'): the outcome of one call is the new clientInfo objects
\* and the send calls made, in order.  cl, info and rs are the Map, the
\* clientInfo objects and the readyStates when the handler runs.

Outcome(info, out) == [clientInfo |-> info, sent |-> out]

InvalidFormatSilent(ws) == <<>>

\* The catch block: JSON.parse threw, or a TypeError was thrown while the
\* message was handled.
InvalidFormat(ws) ==
  <<Send(ws, [type |-> "error", message |-> "invalid_format"])>>

NewUsernameUntrimmed(s) == s

\* message.username.trim(), the value stored in clientInfo.username
NewUsername(s) == Trim(s)

SetUsername(cl, info, rs, ws, message) ==
  LET oldUsername == info[ws].username
      info2 == [info EXCEPT ![ws].username = NewUsername(message.username.s)]
  IN IF ~Truthy(message.username) THEN Outcome(info, <<>>)
     ELSE IF message.username.t # "string" THEN Outcome(info, InvalidFormat(ws))
     ELSE IF Len(Trim(message.username.s)) > 0
       THEN Outcome(info2,
              <<Send(ws, [type |-> "username_changed",
                          username |-> info2[ws].username])>>
              \o broadcastMessage(cl, rs,
                   [type |-> "user_renamed", oldUsername |-> oldUsername,
                    newUsername |-> info2[ws].username,
                    clientId |-> info[ws].id], NoWs))
       ELSE Outcome(info, <<>>)

ChatSenderIsWs(ws) == ws

\* The second argument of broadcastMessage in case 'chat': none is given.
ChatSender(ws) == NoWs

Chat(cl, info, rs, ws, message) ==
  IF ~Truthy(message.text) THEN Outcome(info, <<>>)
  ELSE IF message.text.t # "string" THEN Outcome(info, InvalidFormat(ws))
  ELSE IF Len(Trim(message.text.s)) > 0
    THEN Outcome(info,
           broadcastMessage(cl, rs,
             [type |-> "chat", username |-> info[ws].username,
              clientId |-> info[ws].id, text |-> message.text],
             ChatSender(ws)))
    ELSE Outcome(info, <<>>)

\* The scan of lines 100-106: the key of the first entry whose id is
\* strictly equal to targetClientId, NoWs when there is none.
FindTarget(cl, info, targetClientId) ==
  LET hits == {i \in 1..Len(cl) : StrictEq(Num(info[cl[i]].id), targetClientId)}
  IN IF hits = {} THEN NoWs
     ELSE cl[CHOOSE i \in hits : \A j \in hits : i <= j]

ConfirmToSender(info, ws, targetWs) == info[ws].username

\* clients.get(targetWs).username
ConfirmTo(info, ws, targetWs) == info[targetWs].username

PrivateMessage(cl, info, rs, ws, message) ==
  LET targetWs == FindTarget(cl, info, message.targetClientId)
  IN IF Truthy(message.targetClientId) /\ Truthy(message.text)
       THEN IF targetWs # NoWs
              THEN Outcome(info,
                     <<Send(targetWs,
                         [type |-> "private_message", from |-> info[ws].username,
                          fromClientId |-> info[ws].id, text |-> message.text]),
                       Send(ws,
                         [type |-> "private_message_sent",
                          to |-> ConfirmTo(info, ws, targetWs),
                          text |-> message.text])>>)
              ELSE Outcome(info,
                     <<Send(ws, [type |-> "error", message |-> "not_found",
                                 target |-> message.targetClientId])>>)
       ELSE Outcome(info, <<>>)

UserEntry(client) == [id |-> client.id, username |-> client.username]

\* Array.from(clients.values()).map(...)
UserList(cl, info) == [i \in 1..Len(cl) |-> UserEntry(info[cl[i]])]

MapSizeFromCounter(cl) == clientCounter

\* clients.size
MapSize(cl) == Len(cl)

GetUsers(cl, info, rs, ws, message) ==
  Outcome(info, <<Send(ws, [type |-> "user_list", users |-> UserList(cl, info),
                            totalUsers |-> MapSize(cl)])>>)

PingToAll(cl, info, rs, ws, message) ==
  Outcome(info, broadcastMessage(cl, rs, [type |-> "pong"], NoWs))

Ping(cl, info, rs, ws, message) == Outcome(info, <<Send(ws, [type |-> "pong"])>>)

Echo(cl, info, rs, ws, message) ==
  Outcome(info, <<Send(ws, [type |-> "echo", message |-> message])>>)

HandleMessage(cl, info, rs, ws, data) ==
  IF data.parse # "object" THEN Outcome(info, InvalidFormat(ws))
  ELSE CASE data.type = "set_username" -> SetUsername(cl, info, rs, ws, data)
         [] data.type = "chat" -> Chat(cl, info, rs, ws, data)
         [] data.type = "private_message" -> PrivateMessage(cl, info, rs, ws, data)
         [] data.type = "get_users" -> GetUsers(cl, info, rs, ws, data)
         [] data.type = "ping" -> Ping(cl, info, rs, ws, data)
         [] OTHER -> Echo(cl, info, rs, ws, data)

\* ---------------------------------------------------------------------
\* The handlers as actions.

\* lastOp: the handler, the socket and the clientId of its closure, the
\* payload, and the sockets the handler terminated.
Op(op, ws, clientId, data, evicted) ==
  [op |-> op, ws |-> ws, clientId |-> clientId, data |-> data,
   evicted |-> evicted]

Init ==
  /\ clients = <<>>
  /\ clientInfo = [s \in Sockets |-> NoInfo]
  /\ clientCounter = 0
  /\ isAlive = [s \in Sockets |-> FALSE]
  /\ readyState = [s \in Sockets |-> "NONE"]
  /\ inbound = {}
  /\ phase = "running"
  /\ sent = <<>>
  /\ lastOp = Op("init", NoWs, 0, NoData, {})
  /\ pinged = {}
  /\ reaped = {}
  /\ leftCount = [s \in Sockets |-> 0]
  /\ broken = {}

\* The WebSocket object of the next accepted connection.
NewSocket == CHOOSE s \in Sockets :
  /\ readyState[s] = "NONE"
  /\ \A t \in Sockets : readyState[t] = "NONE" => s <= t

InitialAliveUnset == FALSE

\* ws.isAlive = true, at the end of the connection handler
InitialAlive == TRUE

JoinSenderNone(ws) == NoWs

\* The senderWs argument of the user_joined broadcast.
JoinSender(ws) == ws

\* wss.on('connection'); the http server accepts connections until
\* server.close() is called by the SIGINT handler.
Connection ==
  /\ phase = "running"
  /\ \E s \in Sockets : readyState[s] = "NONE"
  /\ LET ws == NewSocket
         clientId == NextClientId(clientCounter)
         rs2 == [readyState EXCEPT ![ws] = "OPEN"]
         cl2 == MapSet(clients, ws)
     IN /\ clientCounter' = clientId
        /\ clientInfo' = [clientInfo EXCEPT ![ws] = NewClientInfo(clientId)]
        /\ clients' = cl2
        /\ readyState' = rs2
        /\ inbound' = inbound \cup {ws}
        /\ isAlive' = [isAlive EXCEPT ![ws] = InitialAlive]
        /\ sent' = <<Send(ws, [type |-> "welcome", clientId |-> clientId])>>
                   \o broadcastMessage(cl2, rs2,
                        [type |-> "user_joined", clientId |-> clientId],
                        JoinSender(ws))
        /\ lastOp' = Op("connection", ws, clientId, NoData, {})
  /\ UNCHANGED <<phase, pinged, reaped, leftCount, broken>>

MessageProvesAlive(alive, ws) == [alive EXCEPT ![ws] = TRUE]

\* ws.isAlive after the message handler: no branch of it assigns the flag.
MessageAlive(alive, ws) == alive

\* ws.on('message') for one payload.  A socket delivers frames while it is
\* OPEN and, after ws.close(), until the closing handshake ends.
Message(ws, data) ==
  /\ phase # "exited"
  /\ ws \in inbound
  /\ LET r == HandleMessage(clients, clientInfo, readyState, ws, data)
     IN /\ clientInfo' = r.clientInfo
        /\ sent' = r.sent
  /\ isAlive' = MessageAlive(isAlive, ws)
  /\ lastOp' = Op("message", ws, clientInfo[ws].id, data, {})
  /\ UNCHANGED <<clients, clientCounter, readyState, inbound, phase,
                 pinged, reaped, leftCount, broken>>

\* ws.on('close'): emitted once per socket, when its transport has ended;
\* the library sets readyState to CLOSED just before calling the handler.
\* Nothing references the socket and its clientInfo once the handler has
\* returned: they are reset to the values of a socket that does not exist.
OnCloseMapKeeps(cl, ws) == cl

OnCloseMap(cl, ws) == MapDelete(cl, ws)

Close(ws) ==
  /\ phase # "exited"
  /\ readyState[ws] \in {"OPEN", "CLOSING"}
  /\ LET rs2 == [readyState EXCEPT ![ws] = "CLOSED"]
         cl2 == OnCloseMap(clients, ws)
     IN /\ readyState' = rs2
        /\ clients' = cl2
        /\ sent' = broadcastMessage(cl2, rs2,
                     [type |-> "user_left", clientId |-> clientInfo[ws].id], NoWs)
  /\ leftCount' = [leftCount EXCEPT ![ws] = @ + 1]
  /\ inbound' = inbound \ {ws}
  /\ pinged' = pinged \ {ws}
  /\ reaped' = reaped \ {ws}
  /\ lastOp' = Op("close", ws, clientInfo[ws].id, NoData, reaped \cap {ws})
  /\ clientInfo' = [clientInfo EXCEPT ![ws] = NoInfo]
  /\ isAlive' = [isAlive EXCEPT ![ws] = FALSE]
  /\ broken' = broken \ {ws}
  /\ UNCHANGED <<clientCounter, phase>>

\* ws.on('error'): the library has started closing the socket when it
\* emits 'error'; the handler only logs.
OnErrorRemoves(cl, rs, info, ws) ==
  [clients |-> MapDelete(cl, ws),
   sent |-> broadcastMessage(MapDelete(cl, ws), rs,
              [type |-> "user_left", clientId |-> info[ws].id], NoWs),
   left |-> 1]

OnError(cl, rs, info, ws) == [clients |-> cl, sent |-> <<>>, left |-> 0]

Error(ws) ==
  /\ phase # "exited"
  /\ readyState[ws] \in {"OPEN", "CLOSING"}
  /\ ws \in inbound
  /\ readyState' = [readyState EXCEPT ![ws] = "CLOSING"]
  /\ inbound' = inbound \ {ws}
  /\ LET r == OnError(clients, readyState', clientInfo, ws)
     IN /\ clients' = r.clients
        /\ sent' = r.sent
        /\ leftCount' = [leftCount EXCEPT ![ws] = @ + r.left]
  /\ lastOp' = Op("error", ws, clientInfo[ws].id, NoData, {})
  /\ broken' = broken \ {ws}
  /\ UNCHANGED <<clientInfo, clientCounter, isAlive, phase, pinged, reaped>>

OnPongIgnored(alive, ws) == alive

\* ws.on('pong'): ws.isAlive = true
OnPong(alive, ws) == [alive EXCEPT ![ws] = TRUE]

Pong(ws) ==
  /\ phase # "exited"
  /\ ws \in inbound
  /\ isAlive' = OnPong(isAlive, ws)
  /\ pinged' = pinged \ {ws}
  /\ sent' = <<>>
  /\ lastOp' = Op("pong", ws, clientInfo[ws].id, NoData, {})
  /\ UNCHANGED <<clients, clientInfo, clientCounter, readyState, inbound,
                 phase, reaped, leftCount, broken>>

\* The heartbeat callback.  The sockets it terminates: ws.terminate()
\* destroys the transport and leaves readyState CLOSING until 'close'.
NeverStale(ws, alive) == FALSE

Stale(ws, alive) == alive[ws] = FALSE

Terminated(cl, alive) == {ws \in Keys(cl) : Stale(ws, alive)}

Heartbeat ==
  /\ phase # "exited"
  /\ LET evicted == Terminated(clients, isAlive)
         probed == Keys(clients) \ evicted
     IN /\ readyState' = [s \in Sockets |->
                            IF s \in evicted THEN "CLOSING" ELSE readyState[s]]
        /\ inbound' = inbound \ evicted
        /\ isAlive' = [s \in Sockets |->
                         IF s \in probed THEN FALSE ELSE isAlive[s]]
        /\ pinged' = pinged \cup probed
        /\ reaped' = reaped \cup evicted
        /\ lastOp' = Op("heartbeat", NoWs, 0, NoData, evicted)
        /\ broken' = broken \ evicted
  /\ sent' = <<>>
  /\ UNCHANGED <<clients, clientInfo, clientCounter, phase, leftCount>>

\* process.on('SIGINT'): ws.close() on every socket of wss.clients starts
\* the closing handshake (readyState CLOSING, frames still delivered), and
\* server.close() stops accepting connections.
Sigint ==
  /\ phase # "exited"
  /\ readyState' = [s \in Sockets |->
                      IF readyState[s] = "OPEN" THEN "CLOSING" ELSE readyState[s]]
  /\ phase' = "closing"
  /\ sent' = <<>>
  /\ lastOp' = Op("sigint", NoWs, 0, NoData, {})
  /\ broken' = {}
  /\ UNCHANGED <<clients, clientInfo, clientCounter, isAlive, inbound, pinged,
                 reaped, leftCount>>

\* The callback of server.close(): runs once every connection has ended.
Exit ==
  /\ phase = "closing"
  /\ \A s \in Sockets : readyState[s] \in {"NONE", "CLOSED"}
  /\ phase' = "exited"
  /\ sent' = <<>>
  /\ lastOp' = Op("exit", NoWs, 0, NoData, {})
  /\ UNCHANGED <<clients, clientInfo, clientCounter, isAlive, readyState,
                 inbound, pinged, reaped, leftCount, broken>>

\* The events of the server, with the inbound payloads drawn from P.
NextOf(P) ==
  \/ Connection
  \/ \E ws \in Sockets, data \in P : Message(ws, data)
  \/ \E ws \in Sockets : Close(ws)
  \/ \E ws \in Sockets : Error(ws)
  \/ \E ws \in Sockets : Pong(ws)
  \/ Heartbeat
  \/ Sigint
  \/ Exit

\* The transport of an OPEN socket fails (the peer is gone): from now on
\* a write to it fails.  ws.send() still returns normally; the library
\* reports the failure later, by the 'error' event and then 'close'.
TransportFails(ws) ==
  /\ phase # "exited"
  /\ readyState[ws] = "OPEN"
  /\ ws \in inbound
  /\ ws \notin broken
  /\ broken' = broken \cup {ws}
  /\ sent' = <<>>
  /\ lastOp' = Op("transport_fails", ws, clientInfo[ws].id, NoData, {})
  /\ UNCHANGED <<clients, clientInfo, clientCounter, isAlive, readyState,
                 inbound, phase, pinged, reaped, leftCount>>

\* The events of the server and the transport failures.
NextWithFailures(P) == NextOf(P) \/ \E ws \in Sockets : TransportFails(ws)

Next == NextWithFailures(Payloads)

\* The 'close' event of a socket whose transport was destroyed (by
\* ws.terminate() or after an error): the library always emits it.
TransportEnded(ws) == ws \notin inbound /\ Close(ws)

Spec == Init /\ [][Next]_vars

\* ---------------------------------------------------------------------
\* Specifications with the inbound payloads restricted to the ones a
\* property is about; the lifecycle events are those of Spec.

ValidChat == Obj("chat", Undefined, Str(<<" ", "a", " ">>), Undefined)

ValidRename == Obj("set_username", Str(<<" ", "a", " ">>), Undefined, Undefined)

Unparseable == Payload("error", "", Undefined, Undefined, Undefined)

LifecyclePayloads == {ValidChat, Unparseable}

SpecLifecycle == Init /\ [][NextOf(LifecyclePayloads)]_vars

\* The interval timer keeps firing until the process exits, and a destroyed
\* transport always gets its 'close' event.
AppPing == Obj("ping", Undefined, Undefined, Undefined)

SpecPing == Init /\ [][NextOf({AppPing})]_vars

LiveSpec ==
  /\ Init /\ [][NextOf({AppPing})]_vars
  /\ WF_vars(Heartbeat)
  /\ \A ws \in Sockets : WF_vars(TransportEnded(ws))

ChatPayloads == {Obj("chat", Undefined, t, Undefined) : t \in FieldInputs}

SpecChat == Init /\ [][NextOf(ChatPayloads)]_vars

PrivatePayloads ==
  {Obj("private_message", Undefined, Str(<<"x">>), id) : id \in TargetInputs}
  \cup {Obj("private_message", Undefined, t, Num(1)) : t \in TextInputs}

SpecPrivate == Init /\ [][NextOf(PrivatePayloads)]_vars

DirectPayloads ==
  {ValidRename}
  \cup {Obj("private_message", Undefined, Str(<<"x">>), Num(n)) : n \in 1..2}

SpecDirect == Init /\ [][NextOf(DirectPayloads)]_vars

BlankRename == Obj("set_username", Str(<<" ">>), Undefined, Undefined)

UsersPayloads ==
  {Obj("get_users", Undefined, Undefined, Undefined), ValidRename, BlankRename}

SpecUsers == Init /\ [][NextOf(UsersPayloads)]_vars

\* ---------------------------------------------------------------------
\* Shorthands of the properties.

Registered == Keys(clients)

IdOf(ws) == clientInfo[ws].id

Created == {s \in Sockets : readyState[s] # "NONE"}

Entries(ws) == {i \in 1..Len(clients) : clients[i] = ws}

SentTo(ws) == {k \in 1..Len(sent) : sent[k].to = ws}

\* ---------------------------------------------------------------------
\* C1: the n-th accepted connection is given id n (ids start at 1 and grow
\* in connection order), the counter is the number of ids given so far, so
\* an id freed by a removal is not given again, and no two entries of the
\* Map hold the same id.
C1_IdsIncreaseNeverReused ==
  /\ \A ws \in Registered : IdOf(ws) = ws
  /\ clientCounter = Cardinality(Created)
  /\ \A i, j \in 1..Len(clients) :
       i < j => IdOf(clients[i]) < IdOf(clients[j])
  /\ lastOp.op = "connection" =>
       /\ lastOp.clientId = clientCounter
       /\ IdOf(lastOp.ws) = lastOp.clientId
       /\ \A ws \in Registered \ {lastOp.ws} : IdOf(ws) < lastOp.clientId
  /\ lastOp.op = "close" => lastOp.clientId = lastOp.ws

\* A connection accepted after an earlier one was removed.
C1_Witness ==
  /\ lastOp.op = "connection"
  /\ \E ws \in Sockets : readyState[ws] = "CLOSED" /\ ws < lastOp.ws
  /\ Len(clients) >= 2

\* C2 as stated, in the window it names: a socket that a heartbeat tick
\* has just terminated is no longer open, so in the state the tick leaves
\* (before the close handler runs) the Map holds no entry for it.
C2_MapIsExactlyOpen ==
  lastOp.op = "heartbeat" =>
    \A ws \in lastOp.evicted : readyState[ws] # "OPEN" /\ ws \notin Registered

\* C2 amended: every OPEN socket has exactly one entry, every entry is a
\* socket that is OPEN or CLOSING (terminated, errored or closing, its
\* close handler not run yet), no socket has two entries, and the size of
\* the Map is the number of sockets that are OPEN or CLOSING.
C2_MapIsOpenOrClosing ==
  /\ \A s \in Sockets : readyState[s] = "OPEN" => Cardinality(Entries(s)) = 1
  /\ \A s \in Sockets : Cardinality(Entries(s)) <= 1
  /\ Registered = {s \in Sockets : readyState[s] \in {"OPEN", "CLOSING"}}
  /\ Len(clients) =
       Cardinality({s \in Sockets : readyState[s] \in {"OPEN", "CLOSING"}})

\* After a tick terminated one socket, next to an open one and a closed one.
C2_Witness ==
  /\ lastOp.op = "heartbeat"
  /\ lastOp.evicted # {}
  /\ \E s \in Registered : readyState[s] = "OPEN"
  /\ \E s \in Sockets : readyState[s] = "CLOSED"

\* ---------------------------------------------------------------------
\* Chat.

\* The last handler was a chat request with a text that is a string and
\* not empty after trimming.
ChatAccepted ==
  /\ lastOp.op = "message"
  /\ lastOp.data.parse = "object"
  /\ lastOp.data.type = "chat"
  /\ lastOp.data.text.t = "string"
  /\ \E i \in 1..Len(lastOp.data.text.s) : lastOp.data.text.s[i] # " "

ChatEnvelope ==
  [type |-> "chat", username |-> clientInfo[lastOp.ws].username,
   clientId |-> IdOf(lastOp.ws), text |-> lastOp.data.text]

Acknowledged(msg) ==
  "acknowledged" \in DOMAIN msg /\ msg.acknowledged = TRUE

OpenSockets == {s \in Sockets : readyState[s] = "OPEN"}

\* C3 as stated: every other open connection receives the chat message
\* once, and the sender receives it once with acknowledged:true.
C3_SenderGetsAcknowledged ==
  (ChatAccepted /\ lastOp.ws \in OpenSockets /\ OpenSockets # {lastOp.ws}) =>
    /\ \A s \in OpenSockets : Cardinality(SentTo(s)) = 1
    /\ \A k \in 1..Len(sent) :
         /\ sent[k].to \in OpenSockets
         /\ sent[k].msg.type = "chat"
         /\ sent[k].msg.text = lastOp.data.text
         /\ sent[k].msg.clientId = IdOf(lastOp.ws)
         /\ Acknowledged(sent[k].msg) <=> sent[k].to = lastOp.ws

\* C3 amended: every open connection, the sender included, receives exactly
\* one chat message with the text as sent, the sender's id and display
\* name; the sender's copy is the same plain message (no acknowledged
\* field), and nothing else is sent.
C3_ChatPlainCopyToAll ==
  ChatAccepted =>
    /\ \A s \in Sockets :
         Cardinality(SentTo(s)) = IF s \in OpenSockets THEN 1 ELSE 0
    /\ \A k \in 1..Len(sent) : sent[k].msg = ChatEnvelope

\* A chat from an open connection while two other connections are open.
C3_Witness ==
  /\ ChatAccepted
  /\ lastOp.ws \in OpenSockets
  /\ Cardinality(OpenSockets) = 3
  /\ Len(sent) = 3

\* ---------------------------------------------------------------------
\* Liveness monitor and removal.

UserLeft == [type |-> "user_left", clientId |-> lastOp.clientId]

\* The last handler was the close handler of a socket that the heartbeat
\* had terminated.
EvictedClosed == lastOp.op = "close" /\ lastOp.evicted = {lastOp.ws}

\* C4 as stated: the removal of an evicted connection delivers user_left
\* to every connection that remains registered.
C4_LeftReachesEveryRegistered ==
  EvictedClosed =>
    /\ lastOp.ws \notin Registered
    /\ \A s \in Registered : Cardinality(SentTo(s)) = 1
    /\ \A k \in 1..Len(sent) : sent[k].msg = UserLeft

\* C4 amended: a registered connection with an unanswered probe eventually
\* acknowledges or is removed from the Map (by the close handler that
\* follows the tick that terminates it), and that removal makes one
\* user_left broadcast, delivered once to every registered connection that
\* is still open and to no other connection.
C4_StaleEventuallyRemoved ==
  /\ \A ws \in Sockets :
       (ws \in Registered /\ isAlive[ws] = FALSE)
         ~> (ws \notin Registered \/ isAlive[ws] = TRUE)
  /\ [](EvictedClosed =>
          /\ lastOp.ws \notin Registered
          /\ leftCount[lastOp.ws] = 1
          /\ \A s \in Sockets :
               Cardinality(SentTo(s)) =
                 IF s \in Registered /\ s \in OpenSockets THEN 1 ELSE 0
          /\ \A k \in 1..Len(sent) : sent[k].msg = UserLeft)

\* An evicted connection is removed while one connection is open, one is
\* terminated and still registered, and none else exists.
C4_Witness ==
  /\ EvictedClosed
  /\ Len(sent) = 1
  /\ \E s \in Registered : readyState[s] = "CLOSING"

\* C5: a heartbeat tick terminates a socket only if an earlier tick probed
\* it and no pong arrived since; a new connection starts alive, so the
\* first tick after it only probes it.
C5_EvictedOnlyAfterUnansweredProbe ==
  /\ lastOp.op = "heartbeat" => \A ws \in lastOp.evicted : ws \in pinged
  /\ lastOp.op = "connection" =>
       isAlive[lastOp.ws] = TRUE /\ lastOp.ws \notin pinged
  /\ \A ws \in reaped : ws \in Registered /\ isAlive[ws] = FALSE
  /\ \A ws \in Registered : isAlive[ws] = TRUE <=> ws \notin pinged

\* A tick that terminates one connection and only probes another, which
\* had answered its probe or was new.
C5_Witness ==
  /\ lastOp.op = "heartbeat"
  /\ lastOp.evicted # {}
  /\ \E ws \in Registered \ reaped : ws \in pinged /\ readyState[ws] = "OPEN"

\* C6: for every connection, whatever the interleaving of disconnect,
\* error, eviction and shutdown: at most one user_left broadcast is ever
\* made for it, exactly one once it is closed, it has no entry afterwards,
\* and every message of that broadcast names its id.
C6_RemovedOnceAnnouncedOnce ==
  /\ \A ws \in Sockets :
       /\ leftCount[ws] <= 1
       /\ leftCount[ws] = 1 <=> readyState[ws] = "CLOSED"
       /\ readyState[ws] = "CLOSED" => ws \notin Registered
  /\ lastOp.op = "close" =>
       \A k \in 1..Len(sent) : sent[k].msg = UserLeft

\* The close handler of a connection that errored, was then terminated by
\* the heartbeat during shutdown, runs and announces it to an open peer.
C6_Witness ==
  /\ lastOp.op = "close"
  /\ lastOp.evicted = {lastOp.ws}
  /\ phase = "closing"
  /\ leftCount[lastOp.ws] = 1
  /\ Registered # {}


\* ---------------------------------------------------------------------
\* Private messages.

PrivateRequest ==
  /\ lastOp.op = "message"
  /\ lastOp.data.parse = "object"
  /\ lastOp.data.type = "private_message"

\* No entry of the Map holds an id equal to targetClientId.
TargetUnknown ==
  \A s \in Registered : lastOp.data.targetClientId # Num(IdOf(s))

\* C7 as stated: targetClientId and text are present (whatever their
\* values) and no entry has that id: the sender gets exactly one error
\* reply and nothing else is sent.
C7_UnknownTargetErrorReply ==
  ( /\ PrivateRequest
    /\ lastOp.data.targetClientId # Undefined
    /\ lastOp.data.text # Undefined
    /\ TargetUnknown ) =>
      /\ Len(sent) = 1
      /\ sent[1].to = lastOp.ws
      /\ sent[1].msg.type = "error"

\* C8: a private_message with a non-empty text whose targetClientId is the
\* id of a registered connection makes exactly two sends: a private_message
\* with the sender's display name and id and the text to the target, then a
\* private_message_sent with the target's display name and the text to the
\* sender; no other connection is sent anything.
C8_PrivateToTargetOnly ==
  (PrivateRequest /\ Truthy(lastOp.data.text)) =>
    \A target \in Registered :
      lastOp.data.targetClientId = Num(IdOf(target)) =>
        sent = << [to |-> target,
                   msg |-> [type |-> "private_message",
                            from |-> clientInfo[lastOp.ws].username,
                            fromClientId |-> IdOf(lastOp.ws),
                            text |-> lastOp.data.text]],
                  [to |-> lastOp.ws,
                   msg |-> [type |-> "private_message_sent",
                            to |-> clientInfo[target].username,
                            text |-> lastOp.data.text]] >>

\* A private message between two renamed-or-not open connections while a
\* third one is open: the target has changed its display name.
C8_Witness ==
  /\ PrivateRequest
  /\ Len(sent) = 2
  /\ sent[1].to # lastOp.ws
  /\ clientInfo[sent[1].to].username = <<"a">>
  /\ clientInfo[lastOp.ws].username # <<"a">>
  /\ Cardinality(OpenSockets) = 3

\* ---------------------------------------------------------------------
\* User list and rename.

\* C9: get_users is answered by one user_list to the sender only, with
\* totalUsers the number of entries of the Map, users of that length, one
\* element per registered connection with its id and current display name,
\* and no id twice.
C9_UserListIsTheMap ==
  (lastOp.op = "message" /\ lastOp.data.parse = "object"
     /\ lastOp.data.type = "get_users") =>
    /\ Len(sent) = 1
    /\ sent[1].to = lastOp.ws
    /\ sent[1].msg.type = "user_list"
    /\ sent[1].msg.totalUsers = Cardinality(Registered)
    /\ Len(sent[1].msg.users) = sent[1].msg.totalUsers
    /\ \A s \in Registered :
         \E i \in 1..Len(sent[1].msg.users) :
           sent[1].msg.users[i] =
             [id |-> IdOf(s), username |-> clientInfo[s].username]
    /\ \A i, j \in 1..Len(sent[1].msg.users) :
         i # j => sent[1].msg.users[i].id # sent[1].msg.users[j].id

\* get_users after one connection left and another was renamed.
C9_Witness ==
  /\ lastOp.op = "message"
  /\ lastOp.data.type = "get_users"
  /\ \E s \in Sockets : readyState[s] = "CLOSED"
  /\ Len(clients) = 2
  /\ \E s \in Registered : clientInfo[s].username = <<"a">>

\* n is s without its leading and trailing spaces.
IsTrimOf(n, s) ==
  \E i, j \in 1..Len(s) :
    /\ i <= j
    /\ n = SubSeq(s, i, j)
    /\ s[i] # " " /\ s[j] # " "
    /\ \A k \in 1..Len(s) : (k < i \/ k > j) => s[k] = " "

RenameAccepted(op) ==
  /\ op.op = "message"
  /\ op.data.parse = "object"
  /\ op.data.type = "set_username"
  /\ op.data.username.t = "string"
  /\ \E i \in 1..Len(op.data.username.s) : op.data.username.s[i] # " "

\* C10: a set_username with a username that is not empty after trimming
\* sets the sender's display name to the trimmed value, changes neither its
\* id nor any other record nor the Map, sends the sender username_changed
\* first, and then one user_renamed (old name, new name, sender's id) to
\* every open connection, the sender included.
C10_RenameThenNotice ==
  [][RenameAccepted(lastOp') =>
       LET ws == lastOp'.ws
           newName == clientInfo'[ws].username
           notice == [type |-> "user_renamed",
                      oldUsername |-> clientInfo[ws].username,
                      newUsername |-> newName,
                      clientId |-> clientInfo[ws].id]
       IN /\ IsTrimOf(newName, lastOp'.data.username.s)
          /\ clientInfo'[ws].id = clientInfo[ws].id
          /\ \A s \in Sockets \ {ws} : clientInfo'[s] = clientInfo[s]
          /\ clients' = clients /\ clientCounter' = clientCounter
          /\ Len(sent') >= 1
          /\ sent'[1] = [to |-> ws,
                         msg |-> [type |-> "username_changed",
                                  username |-> newName]]
          /\ \A k \in 2..Len(sent') : sent'[k].msg = notice
          /\ \A s \in Sockets :
               Cardinality({k \in 2..Len(sent') : sent'[k].to = s}) =
                 IF readyState[s] = "OPEN" THEN 1 ELSE 0
  ]_vars

\* A rename by an open connection while two others are open: four sends.
C10_Witness ==
  /\ RenameAccepted(lastOp)
  /\ lastOp.ws \in OpenSockets
  /\ clientInfo[lastOp.ws].username = <<"a">>
  /\ Cardinality(OpenSockets) = 3
  /\ Len(sent) = 4

\* ---------------------------------------------------------------------
\* C11: the connection handler sends the accepted socket exactly one
\* welcome carrying its new id, as its first send and with the record
\* already in the Map; then every other OPEN socket gets the user_joined
\* notice once, plain, and the joining socket gets it once with
\* acknowledged: true; nothing else is sent.
Welcome(clientId) == [type |-> "welcome", clientId |-> clientId]

UserJoined(clientId) == [type |-> "user_joined", clientId |-> clientId]

C11_WelcomeThenJoinNotice ==
  lastOp.op = "connection" =>
    LET ws == lastOp.ws
        id == lastOp.clientId
    IN /\ ws \in Registered /\ IdOf(ws) = id
       /\ Len(sent) >= 1 /\ sent[1] = Send(ws, Welcome(id))
       /\ \A k \in 2..Len(sent) : sent[k].msg.type = "user_joined"
       /\ \A k \in SentTo(ws) :
            k = 1 \/ sent[k].msg = UserJoined(id) @@ [acknowledged |-> TRUE]
       /\ Cardinality(SentTo(ws)) = 2
       /\ \A s \in Sockets \ {ws} :
            /\ readyState[s] = "OPEN" => Cardinality(SentTo(s)) = 1
            /\ readyState[s] # "OPEN" => SentTo(s) = {}
            /\ \A k \in SentTo(s) : sent[k].msg = UserJoined(id)

\* A connection accepted next to an open socket and a terminated one.
C11_Witness ==
  /\ lastOp.op = "connection"
  /\ \E s \in Registered \ {lastOp.ws} : readyState[s] = "OPEN"
  /\ \E s \in Registered : readyState[s] = "CLOSING"
  /\ Len(sent) = 3

\* ---------------------------------------------------------------------
\* The requests of a known type whose required field is absent, empty or
\* whitespace-only (targetClientId or text absent, for private_message).
BlankInputs == {Undefined, Str(<<>>), Str(<<" ">>)}

IncompletePayloads ==
  {Obj("chat", Undefined, t, Undefined) : t \in BlankInputs}
  \cup {Obj("set_username", u, Undefined, Undefined) : u \in BlankInputs}
  \cup {Obj("private_message", Undefined, Str(<<"x">>), Undefined),
        Obj("private_message", Undefined, Undefined, Num(1))}

SpecIncomplete == Init /\ [][NextOf(IncompletePayloads)]_vars

C13_UnparseableOneErrorReply ==
  [][(lastOp'.op = "message" /\ lastOp'.data.parse = "error") =>
       /\ sent' = <<Send(lastOp'.ws,
                         [type |-> "error", message |-> "invalid_format"])>>
       /\ lastOp'.ws \in Keys(clients')
       /\ UNCHANGED <<clients, clientInfo, clientCounter, isAlive,
                      readyState, inbound>>]_vars

\* An unparseable payload from an open socket, with another socket open.
C13_Witness ==
  /\ lastOp.op = "message"
  /\ lastOp.data = Unparseable
  /\ readyState[lastOp.ws] = "OPEN"
  /\ OpenSockets # {lastOp.ws}
  /\ Len(sent) = 1

\* ---------------------------------------------------------------------
\* C14: an application ping gets exactly one send call, the pong to its
\* sender, and leaves the Map, the records, the counter, the liveness
\* flags and the socket states as they were.
C14_PingOnePong ==
  [][(lastOp'.op = "message" /\ lastOp'.data = AppPing) =>
       /\ sent' = <<Send(lastOp'.ws, [type |-> "pong"])>>
       /\ UNCHANGED <<clients, clientInfo, clientCounter, isAlive,
                      readyState, inbound>>]_vars

\* An application ping answered while two other sockets are open.
C14_Witness ==
  /\ lastOp.op = "message"
  /\ lastOp.data = AppPing
  /\ Cardinality(OpenSockets \ {lastOp.ws}) >= 2
  /\ sent = <<Send(lastOp.ws, [type |-> "pong"])>>

\* ---------------------------------------------------------------------
\* Application traffic of several kinds, next to the heartbeat.
TrafficPayloads ==
  {AppPing, ValidChat, Unparseable,
   Obj("get_users", Undefined, Undefined, Undefined)}

SpecTraffic == Init /\ [][NextOf(TrafficPayloads)]_vars

\* C15: the message handler never changes a liveness flag or answers a
\* probe, whatever the payload; a flag goes from false to true only in the
\* pong handler (or when the socket's connection is accepted); and a tick
\* terminates every registered socket whose probe is still unanswered,
\* whatever application messages it has sent since.
C15_LivenessIgnoresTraffic ==
  [][/\ lastOp'.op = "message" => isAlive' = isAlive /\ pinged' = pinged
     /\ \A s \in Sockets :
          (isAlive'[s] /\ ~isAlive[s]) =>
            \/ lastOp'.op = "pong" /\ lastOp'.ws = s
            \/ lastOp'.op = "connection" /\ lastOp'.ws = s
     /\ lastOp'.op = "heartbeat" =>
          \A s \in Keys(clients) \cap pinged :
            s \in lastOp'.evicted /\ readyState'[s] = "CLOSING"]_vars

\* An application ping handled for an open socket whose probe is
\* unanswered: the flag is still false, so the next tick terminates it.
C15_Witness ==
  /\ lastOp.op = "message"
  /\ lastOp.data = AppPing
  /\ lastOp.ws \in pinged
  /\ readyState[lastOp.ws] = "OPEN"
  /\ isAlive[lastOp.ws] = FALSE
  /\ sent = <<Send(lastOp.ws, [type |-> "pong"])>>

\* ---------------------------------------------------------------------
\* C16: the heartbeat callback runs only before the SIGINT handler has
\* started: no tick runs while the process is shutting down.
C16_NoTickAfterSigint ==
  lastOp.op = "heartbeat" => phase = "running"

\* ---------------------------------------------------------------------
\* C17 as stated: in the state the error handler leaves, the Map holds no
\* entry for the socket the error was reported on.
C17_ErrorRemovesEntry ==
  lastOp.op = "error" => lastOp.ws \notin Registered

\* C17 amended: the error handler changes neither the Map nor a record
\* and sends nothing, so the entry of the socket is still there when it
\* returns; an entry leaves the Map only in the close handler of its own
\* socket; and the close event the library emits after an error does
\* remove the entry.
C17_ErrorKeepsEntryCloseRemoves ==
  /\ [][lastOp'.op = "error" =>
          /\ clients' = clients /\ clientInfo' = clientInfo
          /\ sent' = <<>>
          /\ lastOp'.ws \in Keys(clients')]_vars
  /\ [][\A s \in Keys(clients) \ Keys(clients') :
          lastOp'.op = "close" /\ lastOp'.ws = s]_vars
  /\ \A s \in Sockets :
       (lastOp.op = "error" /\ lastOp.ws = s) ~> (s \notin Registered)

\* The error handler has run for a socket that is still registered, next
\* to an open socket.
C17_Witness ==
  /\ lastOp.op = "error"
  /\ lastOp.ws \in Registered
  /\ readyState[lastOp.ws] = "CLOSING"
  /\ OpenSockets # {}

\* ---------------------------------------------------------------------
\* Chat broadcasts among sockets some of whose transports have failed.
SpecFailures == Init /\ [][NextWithFailures({ValidChat})]_vars

\* The sockets a handler's broadcast has to reach: those that are OPEN.
\* (The handlers that broadcast change no readyState but that of the
\* socket they open or close.)
Recipients == {sent[k].to : k \in 1..Len(sent)}

C19_NoSendToNonOpen ==
  \A k \in 1..Len(sent) : readyState[sent[k].to] = "OPEN"

\* ---------------------------------------------------------------------
\* C20: a payload that JSON.parse accepts is never answered with the
\* invalid-format error.
C20_ParsedNeverInvalidFormat ==
  (lastOp.op = "message" /\ lastOp.data.parse # "error") =>
    \A k \in 1..Len(sent) :
      sent[k].msg # [type |-> "error", message |-> "invalid_format"]

====
